---- MODULE Spec2Model ----
(***************************************************************************)
(* Daily data-freshness cache and multi-source fallback chain of the       *)
(* stock digest platform:                                                  *)
(*   EnhancedCachingSystem  (core/caching/enhanced_caching_system.py)      *)
(*   SmartCacheFirstSystem  (core/caching/smart_cache_first_system.py)     *)
(*   YahooFinanceDailyCache (core/data_collection/                         *)
(*                           yahoo_finance_daily_cache.py)                 *)
(*   AlphaVantageDataSource (core/data_collection/                         *)
(*                           multi_source_stock_data.py)                   *)
(*                                                                         *)
(* Time is the reading of datetime.now(), counted in ticks of HoursPerTick *)
(* hours; a calendar date is the number of whole days since tick 0.        *)
(* A handler reads the clock once; the clock moves only in Tick.           *)
(***************************************************************************)
EXTENDS Integers, Sequences, FiniteSets, TLC

\* ---------------------------------------------------------------- bounds
MaxTicks == 2
MaxRows == 2
MaxCalls == 2
MaxFrameRows == 2
MaxPasses == 3

\* ------------------------------------------------------------- constants
HoursPerTick == 12
HoursPerDay == 24
DefaultMaxAgeHours == 24
DefaultMaxDailyCalls == 1
DefaultMaxAgeDays == 7
None == -1

Yahoo == "yahoo_finance"
Alpha == "alpha_vantage"
Sources == {Yahoo, Alpha}
NoSource == "none"
Tickers == {"AAPL", "MSFT"}
Vals == {1, 2}
MaxAges == {HoursPerTick, DefaultMaxAgeHours}

\* datetime.now().date() of a clock reading
DateOf(t) == (t * HoursPerTick) \div HoursPerDay

\* (datetime.now() - collected_time).total_seconds() / 3600
AgeHours(t, collected) == (t - collected) * HoursPerTick

\* A stock record (one row of a DataFrame, one dict): the ticker, the tier
\* that produced it, the clock reading of its data_collected_at field and
\* its payload.
Rec(t, o, at, v) == [ticker |-> t, origin |-> o, at |-> at, val |-> v]
NotFound == Rec("", "", None, 0)

\* json.dumps / json.loads of a record: the dict is written as the text of
\* its fields in key order and read back field by field.
JsonDumps(r) == <<r.ticker, r.origin, r.at, r.val>>
JsonLoads(j) == [ticker |-> j[1], origin |-> j[2], at |-> j[3], val |-> j[4]]

VARIABLES
  now,            \* datetime.now(), in ticks
  metadata,       \* EnhancedCachingSystem.metadata (in memory)
  metadata_file,  \* enhanced_cache_metadata.json: readable or not, its text
  called_on,      \* per source, the date of the last record_api_call
  yahoo_finance_cache,  \* table yahoo_finance_cache
  alpha_vantage_cache,  \* table alpha_vantage_cache
  combined_cache,       \* table combined_cache
  latest_put,     \* per (source, ticker), the last committed save_to_cache
  y_last_api_call,  \* YahooFinanceDailyCache.cache_metadata['last_api_call']
  y_stocks,         \* YahooFinanceDailyCache table stocks
  y_json,           \* yahoo_finance_cache.json
  y_api_calls,      \* calls of _collect_stock_data_from_yahoo on the
                    \* current date
  source_status,  \* SmartCacheFirstSystem.source_status
  invoked,        \* per source, adapter invocations on the current date
  last,           \* the last get_stock_data_smart call and what it returned
  obs,            \* the last tracker / store operation and what it returned
  enrichment,     \* the DataFrame in the Enrichment Stage: as received,
                  \* before and after the last _enrich_stock_data
  tasks,          \* per background task, where its get_stock_data_smart
                  \* call stands and what it holds
  other_metadata  \* EnhancedCachingSystem.metadata of a second instance in
                  \* the same process, over the same metadata file

trackerVars == <<metadata, metadata_file, called_on>>
storeVars == <<yahoo_finance_cache, alpha_vantage_cache, combined_cache,
               latest_put>>
yahooVars == <<y_last_api_call, y_stocks, y_json, y_api_calls>>
envVars == <<source_status, enrichment, tasks, other_metadata>>
vars == <<now, trackerVars, storeVars, yahooVars, envVars, invoked, last, obs>>

\* ------------------------------------------------ Call-Budget Tracker
\* a source that is not a key of the metadata dict
NoMeta == [present |-> FALSE, last_api_call |-> None,
           last_successful_update |-> None, daily_calls |-> 0,
           max_daily_calls |-> DefaultMaxDailyCalls]

\* the per-source dict written by _load_metadata when no file exists
FreshMeta == [present |-> TRUE, last_api_call |-> None,
              last_successful_update |-> None, daily_calls |-> 0,
              max_daily_calls |-> DefaultMaxDailyCalls]

MetaKeys == Sources \cup {"last_cache_cleanup"}

\* self.metadata = {} : what _load_metadata leaves when the file cannot be
\* parsed
EmptyMeta == [k \in MetaKeys |-> IF k \in Sources THEN NoMeta ELSE None]

\* json.dump(self.metadata): per key the values in key order, nothing for a
\* source that is not in the dict
DumpMeta(m) ==
  [k \in MetaKeys |->
     IF k \notin Sources THEN <<m[k]>>
     ELSE IF ~m[k].present THEN <<>>
     ELSE <<m[k].last_api_call, m[k].last_successful_update,
            m[k].daily_calls, m[k].max_daily_calls>>]

\* the file after a write that stopped after open(..., 'w') truncated it
Truncated == [readable |-> FALSE, text |-> DumpMeta(EmptyMeta)]

\* how a _save_metadata can end: written, open() refused (file untouched),
\* or stopped in the middle of the dump; the last two are logged, not raised
SaveOutcomes == {"ok", "io_error", "truncated"}

\* _save_metadata: the file it leaves
SaveMetadata(m, file, w) ==
  IF w = "ok" THEN [readable |-> TRUE, text |-> DumpMeta(m)]
  ELSE IF w = "io_error" THEN file
  ELSE Truncated

\* _load_metadata that reads every daily_calls as 0
LoadMetadataForgetsCalls(file) ==
  IF ~file.readable THEN EmptyMeta
  ELSE [k \in MetaKeys |->
          IF k \notin Sources THEN file.text[k][1]
          ELSE IF file.text[k] = <<>> THEN NoMeta
          ELSE [present |-> TRUE,
                last_api_call |-> file.text[k][1],
                last_successful_update |-> file.text[k][2],
                daily_calls |-> 0,
                max_daily_calls |-> file.text[k][4]]]

\* _load_metadata of an existing file: json.load, or {} when that raises
LoadMetadata(file) ==
  IF ~file.readable THEN EmptyMeta
  ELSE [k \in MetaKeys |->
          IF k \notin Sources THEN file.text[k][1]
          ELSE IF file.text[k] = <<>> THEN NoMeta
          ELSE [present |-> TRUE,
                last_api_call |-> file.text[k][1],
                last_successful_update |-> file.text[k][2],
                daily_calls |-> file.text[k][3],
                max_daily_calls |-> file.text[k][4]]]

\* can_call_api_today: the call takes the new-day branch (and saves)
CanCallResets(m, s, t) ==
  /\ m[s].present /\ m[s].last_api_call # None
  /\ DateOf(m[s].last_api_call) < DateOf(t)

\* can_call_api_today with the limit compared by <= instead of <
CanCallResultOffByOne(m, s, t) ==
  IF ~m[s].present THEN TRUE
  ELSE IF m[s].last_api_call = None THEN TRUE
  ELSE IF DateOf(m[s].last_api_call) < DateOf(t) THEN TRUE
  ELSE m[s].daily_calls <= m[s].max_daily_calls

\* can_call_api_today: the value returned
CanCallResult(m, s, t) ==
  IF ~m[s].present THEN TRUE
  ELSE IF m[s].last_api_call = None THEN TRUE
  ELSE IF DateOf(m[s].last_api_call) < DateOf(t) THEN TRUE
  ELSE m[s].daily_calls < m[s].max_daily_calls

\* can_call_api_today: the metadata it leaves (the new-day reset)
CanCallMeta(m, s, t) ==
  IF CanCallResets(m, s, t)
  THEN [m EXCEPT ![s].daily_calls = 0]
  ELSE m

\* record_api_call
RecordCallMeta(m, s, t) ==
  LET m0 == IF m[s].present THEN m ELSE [m EXCEPT ![s] = FreshMeta]
  IN [m0 EXCEPT ![s].last_api_call = t,
                ![s].daily_calls = m0[s].daily_calls + 1]

\* record_successful_update that starts the entry of the source afresh
RecordSuccessMetaAfresh(m, s, t) ==
  [m EXCEPT ![s] = [FreshMeta EXCEPT !.last_successful_update = t]]

\* record_successful_update
RecordSuccessMeta(m, s, t) ==
  [m EXCEPT ![s].present = TRUE, ![s].last_successful_update = t]

\* ------------------------------------------------- Durable Cache Store
Table(s) == IF s = Yahoo THEN yahoo_finance_cache
            ELSE IF s = Alpha THEN alpha_vantage_cache
            ELSE combined_cache

\* a plain INSERT into a table without the primary key
InsertKeepingOld(table, row) == table \cup {row}

\* INSERT OR REPLACE under PRIMARY KEY (ticker, cache_date)
InsertOrReplace(table, row) ==
  {r \in table : ~(r.ticker = row.ticker /\ r.cache_date = row.cache_date)}
    \cup {row}

SourceRow(ticker, data, t) ==
  [ticker |-> ticker, data_json |-> JsonDumps(data),
   collected_at |-> t, cache_date |-> DateOf(t)]

CombinedRow(source, ticker, data, t) ==
  [ticker |-> ticker, data_json |-> JsonDumps(data), data_source |-> source,
   collected_at |-> t, cache_date |-> DateOf(t)]

\* save_to_cache: the three tables after the commit
SaveYahoo(yt, source, ticker, data, t) ==
  IF source = Yahoo THEN InsertOrReplace(yt, SourceRow(ticker, data, t))
  ELSE yt

SaveAlpha(at, source, ticker, data, t) ==
  IF source = Alpha THEN InsertOrReplace(at, SourceRow(ticker, data, t))
  ELSE at

SaveCombined(ct, source, ticker, data, t) ==
  InsertOrReplace(ct, CombinedRow(source, ticker, data, t))

\* SELECT ... WHERE ticker = ? ORDER BY collected_at DESC LIMIT 1
SelectLatest(table, ticker) ==
  LET rows == {r \in table : r.ticker = ticker}
  IN IF rows = {} THEN {}
     ELSE {CHOOSE r \in rows : \A q \in rows : q.collected_at <= r.collected_at}

\* the freshness test with the boundary age excluded
IsFreshStrict(collected, t, max_age_hours) ==
  AgeHours(t, collected) < max_age_hours

\* the freshness test of get_from_cache
IsFresh(collected, t, max_age_hours) ==
  AgeHours(t, collected) <= max_age_hours

\* get_from_cache on given tables (source = NoSource reads combined_cache)
GetFrom(yt, at, ct, ticker, source, max_age_hours, t) ==
  LET table == IF source = Yahoo THEN yt
               ELSE IF source = Alpha THEN at ELSE ct
      res == SelectLatest(table, ticker)
  IN IF res = {} THEN NotFound
     ELSE LET r == CHOOSE x \in res : TRUE
          IN IF IsFresh(r.collected_at, t, max_age_hours)
             THEN JsonLoads(r.data_json)
             ELSE NotFound

GetFromCache(ticker, source, max_age_hours, t) ==
  GetFrom(yahoo_finance_cache, alpha_vantage_cache, combined_cache,
          ticker, source, max_age_hours, t)

\* ------------------------------------------------------------ observations
Obs(op, source, ticker, max_age, answer, data) ==
  [op |-> op, source |-> source, ticker |-> ticker, max_age |-> max_age,
   answer |-> answer, data |-> data, replaced |-> FALSE,
   returned |-> None, deleted |-> 0, listed |-> {}, wrote |-> "none"]

NoObs == [op |-> "none", source |-> NoSource, ticker |-> "", max_age |-> 0,
          answer |-> FALSE, data |-> NotFound, replaced |-> FALSE,
          returned |-> None, deleted |-> 0, listed |-> {}, wrote |-> "none"]

NoPut == [at |-> None, data |-> NotFound]

\* a DataFrame: its columns and its rows, a row giving every column a cell
NoFrame == [cols |-> {}, rows |-> <<>>]

NoEnrichment == [input |-> NoFrame, prev |-> NoFrame, out |-> NoFrame,
                 passes |-> 0]

\* the background tasks send_daily_digest queues; they run in the thread
\* pool on the one SmartEmailSender and its one SmartCacheFirstSystem
TaskIds == {1, 2}

\* the ticker list send_daily_digest_email reads from the sheet: the same
\* for every task
DigestTickers == <<"AAPL">>

\* a task that is not inside get_stock_data_smart
IdleTask == [pc |-> "idle", tickers |-> <<>>, source |-> NoSource,
             data |-> <<>>, checked_on |-> None,
             saw |-> [s \in Sources |-> 0]]

NoLast == [tickers |-> <<>>, force_refresh |-> FALSE, could |-> {}, tried |-> {},
           recorded |-> {}, tier |-> "none", result |-> <<>>,
           yahoo_raised |-> FALSE, save_failed |-> {},
           sample_failed |-> FALSE, raised |-> FALSE]

\* ------------------------------------------------------------------- Init
InitWith(e) ==
  /\ enrichment = e
  /\ tasks = [t \in TaskIds |-> IdleTask]
  /\ other_metadata = [k \in MetaKeys |->
                         IF k \in Sources THEN FreshMeta ELSE None]
  /\ now = 0
  /\ metadata = [k \in MetaKeys |-> IF k \in Sources THEN FreshMeta ELSE None]
  /\ metadata_file = [readable |-> TRUE, text |-> DumpMeta(metadata)]
  /\ called_on = [s \in Sources |-> None]
  /\ yahoo_finance_cache = {}
  /\ alpha_vantage_cache = {}
  /\ combined_cache = {}
  /\ latest_put = [k \in (Sources \cup {NoSource}) \X Tickers |-> NoPut]
  /\ y_last_api_call = None
  /\ y_stocks = {}
  /\ y_json = [exists |-> FALSE, cache_date |-> None, data |-> <<>>]
  /\ y_api_calls = 0
  /\ source_status \in [yahoo_finance : BOOLEAN, alpha_vantage : BOOLEAN,
                        enhanced_caching : BOOLEAN]
  /\ invoked = [s \in Sources |-> 0]
  /\ last = NoLast
  /\ obs = NoObs

Init == InitWith(NoEnrichment)

\* the tracker and the store on their own: every adapter configured
InitCache ==
  /\ Init
  /\ source_status = [yahoo_finance |-> TRUE, alpha_vantage |-> TRUE,
                      enhanced_caching |-> TRUE]

\* ---------------------------------------------------------------- actions
\* the clock advances; what the last operation returned is no longer
\* observed, and the invocation counts start again on a new date
Tick ==
  /\ now < MaxTicks
  /\ now' = now + 1
  /\ obs' = NoObs
  /\ last' = NoLast
  /\ invoked' = IF DateOf(now + 1) # DateOf(now)
                THEN [s \in Sources |-> 0] ELSE invoked
  /\ y_api_calls' = IF DateOf(now + 1) # DateOf(now) THEN 0 ELSE y_api_calls
  /\ UNCHANGED <<trackerVars, storeVars, y_last_api_call, y_stocks, y_json,
                 envVars>>

\* EnhancedCachingSystem.can_call_api_today(source); w: how the
\* _save_metadata of the new-day branch ends
CanCallApiToday(s, w) ==
  /\ metadata' = CanCallMeta(metadata, s, now)
  /\ metadata_file' = IF CanCallResets(metadata, s, now)
                      THEN SaveMetadata(metadata', metadata_file, w)
                      ELSE metadata_file
  /\ obs' = [Obs("can_call", s, "", 0, CanCallResult(metadata, s, now),
                 NotFound)
               EXCEPT !.wrote = IF CanCallResets(metadata, s, now)
                                THEN w ELSE "none"]
  /\ UNCHANGED <<now, called_on, storeVars, yahooVars, envVars, invoked, last>>

\* EnhancedCachingSystem.record_api_call(source); w: how _save_metadata ends
RecordApiCall(s, w) ==
  /\ metadata[s].daily_calls < MaxCalls
  /\ metadata' = RecordCallMeta(metadata, s, now)
  /\ metadata_file' = SaveMetadata(metadata', metadata_file, w)
  /\ called_on' = [called_on EXCEPT ![s] = DateOf(now)]
  /\ obs' = [Obs("record_call", s, "", 0, TRUE, NotFound) EXCEPT !.wrote = w]
  /\ UNCHANGED <<now, storeVars, yahooVars, envVars, invoked, last>>

\* EnhancedCachingSystem.record_successful_update(source); w: how
\* _save_metadata ends
RecordSuccessfulUpdate(s, w) ==
  /\ metadata' = RecordSuccessMeta(metadata, s, now)
  /\ metadata_file' = SaveMetadata(metadata', metadata_file, w)
  /\ obs' = [Obs("record_success", s, "", 0, TRUE, NotFound)
               EXCEPT !.wrote = w]
  /\ UNCHANGED <<now, called_on, storeVars, yahooVars, envVars, invoked, last>>

\* ---- a second EnhancedCachingSystem of the same process: the data systems
\* ---- each construct their own, and every instance keeps its own
\* ---- self.metadata, loaded once from the shared file
\* __init__ of the second instance: _load_metadata
OtherConstruct ==
  /\ other_metadata' = LoadMetadata(metadata_file)
  /\ obs' = Obs("construct_other", NoSource, "", 0, metadata_file.readable,
                NotFound)
  /\ UNCHANGED <<now, trackerVars, storeVars, yahooVars, source_status,
                 enrichment, tasks, invoked, last>>

\* can_call_api_today(source) on the second instance
OtherCanCallApiToday(s) ==
  /\ other_metadata' = CanCallMeta(other_metadata, s, now)
  /\ metadata_file' = IF CanCallResets(other_metadata, s, now)
                      THEN SaveMetadata(other_metadata', metadata_file, "ok")
                      ELSE metadata_file
  /\ obs' = Obs("can_call_other", s, "", 0,
                CanCallResult(other_metadata, s, now), NotFound)
  /\ UNCHANGED <<now, metadata, called_on, storeVars, yahooVars,
                 source_status, enrichment, tasks, invoked, last>>

\* record_api_call(source) on the second instance
OtherRecordApiCall(s) ==
  /\ other_metadata[s].daily_calls < MaxCalls
  /\ other_metadata' = RecordCallMeta(other_metadata, s, now)
  /\ metadata_file' = SaveMetadata(other_metadata', metadata_file, "ok")
  /\ called_on' = [called_on EXCEPT ![s] = DateOf(now)]
  /\ obs' = Obs("record_call_other", s, "", 0, TRUE, NotFound)
  /\ UNCHANGED <<now, metadata, storeVars, yahooVars, source_status,
                 enrichment, tasks, invoked, last>>

\* can_call_api_today(source) whose body raises on the entry of the source
\* (a last_api_call that datetime.fromisoformat rejects, an entry that is
\* not a dict): the handler logs the error and returns True
CanCallApiTodayRaising(s) ==
  /\ metadata[s].present
  /\ obs' = Obs("can_call_raising", s, "", 0, TRUE, NotFound)
  /\ UNCHANGED <<now, trackerVars, storeVars, yahooVars, envVars, invoked, last>>

\* a construction that starts every source as exhausted for today when the
\* file cannot be parsed
RestartFailsClosed ==
  /\ metadata' = IF metadata_file.readable THEN LoadMetadata(metadata_file)
                 ELSE [k \in MetaKeys |->
                         IF k \in Sources
                         THEN [FreshMeta EXCEPT
                                 !.last_api_call = now,
                                 !.daily_calls = DefaultMaxDailyCalls]
                         ELSE None]
  /\ obs' = Obs("restart", NoSource, "", 0, metadata_file.readable, NotFound)
  /\ UNCHANGED <<now, metadata_file, called_on, storeVars, yahooVars, envVars,
                 invoked, last>>

\* the process ends and a new EnhancedCachingSystem is constructed:
\* __init__ runs _load_metadata on the file the old process left
Restart ==
  /\ metadata' = LoadMetadata(metadata_file)
  /\ obs' = Obs("restart", NoSource, "", 0, metadata_file.readable, NotFound)
  /\ UNCHANGED <<now, metadata_file, called_on, storeVars, yahooVars, envVars,
                 invoked, last>>

\* the committed row of this source, ticker and date that a save overwrites
\* with different data
Replaces(source, ticker, data, t) ==
  \E r \in Table(source) :
     /\ r.ticker = ticker /\ r.cache_date = DateOf(t)
     /\ r.data_json # JsonDumps(data)

\* the store holds at most MaxRows per-source rows
RoomFor(source, ticker, t) ==
  \/ \E r \in Table(source) : r.ticker = ticker /\ r.cache_date = DateOf(t)
  \/ Cardinality(yahoo_finance_cache) + Cardinality(alpha_vantage_cache)
       < MaxRows

\* save_to_cache without a transaction: a failure after the first INSERT
\* leaves the row of the source table written
SaveToCacheNoRollback(source, ticker, data, fail) ==
  /\ RoomFor(source, ticker, now)
  /\ yahoo_finance_cache' =
       SaveYahoo(yahoo_finance_cache, source, ticker, data, now)
  /\ alpha_vantage_cache' =
       SaveAlpha(alpha_vantage_cache, source, ticker, data, now)
  /\ IF fail
     THEN UNCHANGED <<combined_cache, latest_put>>
     ELSE /\ combined_cache' =
               SaveCombined(combined_cache, source, ticker, data, now)
          /\ latest_put' =
               [latest_put EXCEPT ![<<source, ticker>>] = [at |-> now, data |-> data],
                                  ![<<NoSource, ticker>>] = [at |-> now, data |-> data]]
  /\ obs' = [Obs("put", source, ticker, 0, ~fail, data)
               EXCEPT !.replaced = ~fail /\ Replaces(source, ticker, data, now)]
  /\ UNCHANGED <<now, trackerVars, yahooVars, envVars, invoked, last>>

\* EnhancedCachingSystem.save_to_cache(source, ticker, data); fail is a
\* storage error (or a value json.dumps rejects) before the commit
SaveToCache(source, ticker, data, fail) ==
  /\ RoomFor(source, ticker, now)
  /\ IF fail
     THEN UNCHANGED storeVars
     ELSE /\ yahoo_finance_cache' =
               SaveYahoo(yahoo_finance_cache, source, ticker, data, now)
          /\ alpha_vantage_cache' =
               SaveAlpha(alpha_vantage_cache, source, ticker, data, now)
          /\ combined_cache' =
               SaveCombined(combined_cache, source, ticker, data, now)
          /\ latest_put' =
               [latest_put EXCEPT ![<<source, ticker>>] = [at |-> now, data |-> data],
                                  ![<<NoSource, ticker>>] = [at |-> now, data |-> data]]
  /\ obs' = [Obs("put", source, ticker, 0, ~fail, data)
               EXCEPT !.replaced = ~fail /\ Replaces(source, ticker, data, now)]
  /\ UNCHANGED <<now, trackerVars, yahooVars, envVars, invoked, last>>

\* get_from_cache that deletes the rows of the ticker it finds too old
GetFromCacheOpExpiring(ticker, source, max_age_hours, fail) ==
  LET found == IF fail THEN NotFound
               ELSE GetFromCache(ticker, source, max_age_hours, now)
      keep(table) == IF ~fail /\ found = NotFound
                     THEN {r \in table : r.ticker # ticker} ELSE table
  IN /\ obs' = Obs("get", source, ticker, max_age_hours, ~fail, found)
     /\ yahoo_finance_cache' = IF source = Yahoo THEN keep(yahoo_finance_cache)
                               ELSE yahoo_finance_cache
     /\ alpha_vantage_cache' = IF source = Alpha THEN keep(alpha_vantage_cache)
                               ELSE alpha_vantage_cache
     /\ combined_cache' = IF source = NoSource THEN keep(combined_cache)
                          ELSE combined_cache
     /\ UNCHANGED <<now, trackerVars, latest_put, yahooVars, envVars, invoked,
                    last>>

\* EnhancedCachingSystem.get_from_cache(ticker, source, max_age_hours)
GetFromCacheOp(ticker, source, max_age_hours, fail) ==
  /\ obs' = Obs("get", source, ticker, max_age_hours, ~fail,
                IF fail THEN NotFound
                ELSE GetFromCache(ticker, source, max_age_hours, now))
  /\ UNCHANGED <<now, trackerVars, storeVars, yahooVars, envVars, invoked, last>>

\* SELECT DISTINCT ticker FROM the table of the source
DistinctTickers(source) == {r.ticker : r \in Table(source)}

\* EnhancedCachingSystem.get_all_cached_tickers(source); fail: the storage
\* layer raises
GetAllCachedTickers(source, fail) ==
  /\ obs' = [Obs("list", source, "", 0, ~fail, NotFound)
               EXCEPT !.listed = IF fail THEN {} ELSE DistinctTickers(source)]
  /\ UNCHANGED <<now, trackerVars, storeVars, yahooVars, envVars, invoked, last>>

\* DELETE FROM table WHERE cache_date < cutoff: the rows deleted
OldRows(table, cutoff) == {r \in table : r.cache_date < cutoff}

MaxAgeDays == {0, 1, DefaultMaxAgeDays}

\* cleanup_old_cache that deletes from combined_cache only
CleanupOldCacheCombinedOnly(max_age_days, fail) ==
  LET cutoff == DateOf(now) - max_age_days
      total_deleted == Cardinality(OldRows(combined_cache, cutoff))
      logged == ~fail /\ total_deleted > 0
  IN /\ IF fail
        THEN UNCHANGED storeVars
        ELSE /\ combined_cache' =
                  combined_cache \ OldRows(combined_cache, cutoff)
             /\ latest_put' =
                  [k \in DOMAIN latest_put |->
                     IF latest_put[k].at # None /\ k[1] = NoSource
                        /\ DateOf(latest_put[k].at) < cutoff
                     THEN NoPut ELSE latest_put[k]]
             /\ UNCHANGED <<yahoo_finance_cache, alpha_vantage_cache>>
     /\ metadata' = IF logged
                    THEN [metadata EXCEPT !["last_cache_cleanup"] = now]
                    ELSE metadata
     /\ metadata_file' = IF logged
                         THEN SaveMetadata(metadata', metadata_file, "ok")
                         ELSE metadata_file
     /\ obs' = [Obs("cleanup", NoSource, "", max_age_days, ~fail, NotFound)
                  EXCEPT !.returned = None,
                         !.deleted = IF fail THEN 0 ELSE total_deleted]
     /\ UNCHANGED <<now, called_on, yahooVars, envVars, invoked, last>>

\* EnhancedCachingSystem.cleanup_old_cache(max_age_days); fail: the storage
\* layer raises before the commit. The function has no return statement:
\* the caller gets None. obs.deleted is the number of rows the three DELETEs
\* removed (total_deleted).
CleanupOldCache(max_age_days, fail) ==
  LET cutoff == DateOf(now) - max_age_days
      total_deleted == Cardinality(OldRows(yahoo_finance_cache, cutoff))
                         + Cardinality(OldRows(alpha_vantage_cache, cutoff))
                         + Cardinality(OldRows(combined_cache, cutoff))
      logged == ~fail /\ total_deleted > 0
  IN /\ IF fail
        THEN UNCHANGED storeVars
        ELSE /\ yahoo_finance_cache' =
                  yahoo_finance_cache \ OldRows(yahoo_finance_cache, cutoff)
             /\ alpha_vantage_cache' =
                  alpha_vantage_cache \ OldRows(alpha_vantage_cache, cutoff)
             /\ combined_cache' =
                  combined_cache \ OldRows(combined_cache, cutoff)
             /\ latest_put' =
                  [k \in DOMAIN latest_put |->
                     IF latest_put[k].at # None
                        /\ DateOf(latest_put[k].at) < cutoff
                     THEN NoPut ELSE latest_put[k]]
     /\ metadata' = IF logged
                    THEN [metadata EXCEPT !["last_cache_cleanup"] = now]
                    ELSE metadata
     /\ metadata_file' = IF logged
                         THEN SaveMetadata(metadata', metadata_file, "ok")
                         ELSE metadata_file
     /\ obs' = [Obs("cleanup", NoSource, "", max_age_days, ~fail, NotFound)
                  EXCEPT !.returned = None,
                         !.deleted = IF fail THEN 0 ELSE total_deleted]
     /\ UNCHANGED <<now, called_on, yahooVars, envVars, invoked, last>>

\* ------------------------------------------------------- Source Adapters
Range(q) == {q[i] : i \in 1..Len(q)}

\* the order in which a scan of a table returns its rows
TickerOrder == <<"AAPL", "MSFT">>

\* ticker lists of a request: non-empty, no ticker twice
Requests ==
  {q \in UNION {[1..n -> Tickers] : n \in 1..Cardinality(Tickers)} :
     \A i, j \in 1..Len(q) : q[i] = q[j] => i = j}

\* [stock for stock in cached_data if stock['ticker'] in tickers]
FilterTickers(data, tickers) ==
  SelectSeq(data, LAMBDA r : r.ticker \in Range(tickers))

\* _collect_stock_data_from_yahoo: one record per ticker the API answers
\* for (live), in request order
CollectFromYahoo(tickers, live, t) ==
  LET sel == SelectSeq(tickers, LAMBDA x : x \in live)
  IN [i \in 1..Len(sel) |-> Rec(sel[i], Yahoo, t, 1)]

\* YahooFinanceDailyCache._save_to_cache, the SQLite part:
\* INSERT OR REPLACE INTO stocks, PRIMARY KEY ticker
SaveStocks(stocks, data, date) ==
  {r \in stocks : r.ticker \notin {data[i].ticker : i \in 1..Len(data)}}
    \cup {[ticker |-> data[i].ticker, data_json |-> JsonDumps(data[i]),
           cache_date |-> date] : i \in 1..Len(data)}

\* YahooFinanceDailyCache._load_from_cache(cache_date); <<>> stands for
\* None and for an empty list, which the callers do not tell apart
LoadFromCache(stocks, json, date, fail) ==
  LET hit == SelectSeq(TickerOrder,
               LAMBDA x : \E r \in stocks : r.ticker = x /\ r.cache_date = date)
      row(x) == CHOOSE r \in stocks : r.ticker = x
  IN IF fail THEN <<>>
     ELSE IF hit # <<>>
       THEN [i \in 1..Len(hit) |-> JsonLoads(row(hit[i]).data_json)]
     ELSE IF json.exists /\ json.cache_date = date THEN json.data
     ELSE <<>>

YSaveOutcomes == {"ok"}

\* YahooFinanceDailyCache.get_stock_data(tickers, force_refresh).
\* live: the tickers the API answers for; ysave: how far _save_to_cache
\* gets; yloadfail: _load_from_cache hits a storage error.
YahooGetStockData(tickers, force_refresh, live, ysave, yloadfail, t) ==
  LET today == DateOf(t)
      yesterday == DateOf(t) - 1
      same == [raised |-> FALSE, data |-> <<>>, api |-> FALSE,
               last_api_call |-> y_last_api_call, stocks |-> y_stocks,
               json |-> y_json]
      today_valid == \E r \in y_stocks : r.cache_date = today
      from_today == LoadFromCache(y_stocks, y_json, today, yloadfail)
      from_yesterday == LoadFromCache(y_stocks, y_json, yesterday, yloadfail)
      stock_data == CollectFromYahoo(tickers, live, t)
      new_json == IF ysave \in {"ok", "json_only"}
                  THEN [exists |-> TRUE, cache_date |-> today,
                        data |-> stock_data]
                  ELSE y_json
      new_stocks == IF ysave = "ok" THEN SaveStocks(y_stocks, stock_data, today)
                    ELSE y_stocks
  IN IF ~force_refresh /\ today_valid /\ from_today # <<>>
       THEN [same EXCEPT !.data = FilterTickers(from_today, tickers)]
     ELSE IF /\ y_last_api_call # None
             /\ DateOf(y_last_api_call) = today
             /\ ~force_refresh
             /\ from_yesterday # <<>>
       THEN [same EXCEPT !.data = FilterTickers(from_yesterday, tickers)]
     ELSE IF stock_data # <<>>
       THEN [raised |-> FALSE, data |-> stock_data, api |-> TRUE,
             last_api_call |-> t, stocks |-> new_stocks, json |-> new_json]
     ELSE IF from_yesterday # <<>>
       THEN [same EXCEPT !.api = TRUE, !.last_api_call = t,
                         !.data = FilterTickers(from_yesterday, tickers)]
     ELSE [same EXCEPT !.api = TRUE, !.last_api_call = t, !.raised = TRUE]

\* what the Yahoo API and the adapter's own storage can do in one call
YahooOutcomes(tickers) ==
  {[live |-> Range(tickers), ysave |-> v, yloadfail |-> FALSE] :
     v \in YSaveOutcomes}
  \cup {[live |-> {}, ysave |-> "none", yloadfail |-> f] : f \in BOOLEAN}

\* a caller's YahooFinanceDailyCache.get_stock_data(tickers, force_refresh);
\* o: what the API and the adapter's storage do during the call. The
\* answer observed is whether the call returned (TRUE) or raised.
YahooGetStockDataOp(tickers, force_refresh, o) ==
  LET y == YahooGetStockData(tickers, force_refresh, o.live, o.ysave,
                             o.yloadfail, now)
  IN /\ y_api_calls < MaxCalls
     /\ y_last_api_call' = y.last_api_call
     /\ y_stocks' = y.stocks
     /\ y_json' = y.json
     /\ y_api_calls' = IF y.api THEN y_api_calls + 1 ELSE y_api_calls
     /\ obs' = Obs("get_stock_data", Yahoo, "", 0, ~y.raised, NotFound)
     /\ last' = NoLast
     /\ UNCHANGED <<now, trackerVars, storeVars, envVars, invoked>>

\* SmartCacheFirstSystem._collect_alpha_vantage_data: one record per ticker
\* for which both the quote and the overview came back (live); a ticker
\* that fails is skipped, an error of the whole loop yields an empty frame
CollectAlphaVantageData(tickers, live, t) ==
  LET sel == SelectSeq(tickers, LAMBDA x : x \in live)
  IN [i \in 1..Len(sel) |-> Rec(sel[i], Alpha, t, 1)]

\* ------------------------------------------------------ Enrichment Stage
\* A DataFrame is its set of columns and its rows; a row gives every column
\* a cell. Cells are integers: prices, ratios, rates and percentages in
\* hundredths (1.0 is 100), volumes and share counts in thousands,
\* market_cap in millions, a categorical as its code, the ticker as the
\* row's position, data_source as 1 (given by the dataset) or 2
\* ('Multi-Source System'). NaN is the missing cell (None, NaN), Inf the
\* result of a division by zero.
NaN == -999999
Inf == 999999999

\* _ensure_required_fields: required_fields and their defaults
RequiredFields ==
  [debt_to_equity |-> 100, free_cash_flow |-> 0, interest_income_ratio |-> 0,
   volume |-> 1000, average_volume |-> 1000, bid_ask_spread |-> 1,
   shares_outstanding |-> 10000, trend_30d |-> 0, trend_90d |-> 0,
   rsi |-> 5000, volatility |-> 20, eps |-> 100, eps_growth |-> 10,
   revenue_growth |-> 10, profit_margin |-> 15, pe_ratio |-> 2000,
   pb_ratio |-> 200, roe |-> 15]

\* data[name] = vals, one value per row
SetColumn(df, name, vals) ==
  LET cols == df.cols \cup {name}
  IN [cols |-> cols,
      rows |-> [i \in 1..Len(df.rows) |->
                  [c \in cols |-> IF c = name THEN vals[i]
                                  ELSE df.rows[i][c]]]]

\* data['volume'] / data['avg_volume_30d'].replace(0, 1), then fillna(1)
VolumeRatio(r) ==
  IF r.volume = NaN \/ r.avg_volume_30d = NaN THEN 100
  ELSE IF r.avg_volume_30d = 0 THEN r.volume * 100000
  ELSE (r.volume * 100) \div r.avg_volume_30d

\* ((current_price - prev_close) / prev_close * 100).fillna(0)
PriceMomentum(r) ==
  IF r.current_price = NaN \/ r.prev_close = NaN THEN 0
  ELSE IF r.prev_close = 0
       THEN (IF r.current_price = 0 THEN 0 ELSE Inf)
  ELSE ((r.current_price - r.prev_close) * 10000) \div r.prev_close

\* pd.cut(market_cap, bins=[0, 2e9, 10e9, 100e9, inf]): the code of the label
MarketCapCategory(r) ==
  IF r.market_cap = NaN \/ r.market_cap <= 0 THEN NaN
  ELSE IF r.market_cap <= 2000 THEN 0
  ELSE IF r.market_cap <= 10000 THEN 1
  ELSE IF r.market_cap <= 100000 THEN 2
  ELSE 3

\* data['pe_ratio'] / (data['eps_growth'] * 100).replace(0, 1), then fillna(0)
PegRatioCalculated(r) ==
  IF r.pe_ratio = NaN \/ r.eps_growth = NaN THEN 0
  ELSE IF r.eps_growth = 0 THEN r.pe_ratio
  ELSE r.pe_ratio \div r.eps_growth

\* MultiSourceStockDataSystem._add_calculated_metrics
AddCalculatedMetrics(df) ==
  LET d1 == IF {"volume", "avg_volume_30d"} \subseteq df.cols
            THEN SetColumn(df, "volume_ratio",
                 [i \in 1..Len(df.rows) |-> VolumeRatio(df.rows[i])]) ELSE df
      d2 == IF {"current_price", "prev_close"} \subseteq d1.cols
            THEN SetColumn(d1, "price_momentum",
                 [i \in 1..Len(d1.rows) |-> PriceMomentum(d1.rows[i])]) ELSE d1
      d3 == IF "market_cap" \in d2.cols
            THEN SetColumn(d2, "market_cap_category",
                 [i \in 1..Len(d2.rows) |-> MarketCapCategory(d2.rows[i])])
            ELSE d2
  IN IF {"pe_ratio", "eps_growth"} \subseteq d3.cols
     THEN SetColumn(d3, "peg_ratio_calculated",
                 [i \in 1..Len(d3.rows) |-> PegRatioCalculated(d3.rows[i])]) ELSE d3

\* _ensure_required_fields that writes the default into every required column
EnsureRequiredFieldsOverwriting(df) ==
  LET cols == df.cols \cup DOMAIN RequiredFields
  IN [cols |-> cols,
      rows |-> [i \in 1..Len(df.rows) |->
                  [c \in cols |-> IF c \in DOMAIN RequiredFields
                                  THEN RequiredFields[c]
                                  ELSE df.rows[i][c]]]]

\* MultiSourceStockDataSystem._ensure_required_fields
EnsureRequiredFields(df) ==
  LET cols == df.cols \cup DOMAIN RequiredFields
  IN [cols |-> cols,
      rows |-> [i \in 1..Len(df.rows) |->
                  [c \in cols |-> IF c \in df.cols THEN df.rows[i][c]
                                  ELSE RequiredFields[c]]]]

\* data.notna().sum(axis=1) for one row
NotNaCount(r) == Cardinality({c \in DOMAIN r : r[c] # NaN})

\* (data['data_completeness'] / len(data.columns)) * 100 for one row
CompletenessPct(r) == (r.data_completeness * 10000) \div Cardinality(DOMAIN r)

\* data['data_age_hours'] = 0
FreshAge(r) == 0

\* data['data_source'] = 'Multi-Source System'
MultiSourceSystem(r) == 2

\* MultiSourceStockDataSystem._add_data_quality_indicators
AddDataQualityIndicators(df) ==
  LET d1 == SetColumn(df, "data_completeness",
                 [i \in 1..Len(df.rows) |-> NotNaCount(df.rows[i])])
      d2 == [cols |-> d1.cols \cup {"data_completeness_pct"},
             rows |-> [i \in 1..Len(d1.rows) |->
                         [c \in d1.cols \cup {"data_completeness_pct"} |->
                            IF c = "data_completeness_pct"
                            THEN CompletenessPct(d1.rows[i])
                            ELSE d1.rows[i][c]]]]
      d3 == SetColumn(d2, "data_age_hours",
                 [i \in 1..Len(d2.rows) |-> FreshAge(d2.rows[i])])
  IN IF "data_source" \in d3.cols THEN d3
     ELSE SetColumn(d3, "data_source",
                 [i \in 1..Len(d3.rows) |-> MultiSourceSystem(d3.rows[i])])

\* MultiSourceStockDataSystem._enrich_stock_data
EnrichStockData(df) ==
  AddDataQualityIndicators(EnsureRequiredFields(AddCalculatedMetrics(df)))

\* data['data_source'] = 'Yahoo Finance'
YahooFinanceLabel(r) == 3

\* IntegratedDigestSystem._add_data_quality_indicators: the source column is
\* written whether or not the dataset has one
IntegratedAddDataQualityIndicators(df) ==
  LET d1 == SetColumn(df, "data_completeness",
                 [i \in 1..Len(df.rows) |-> NotNaCount(df.rows[i])])
      d2 == [cols |-> d1.cols \cup {"data_completeness_pct"},
             rows |-> [i \in 1..Len(d1.rows) |->
                         [c \in d1.cols \cup {"data_completeness_pct"} |->
                            IF c = "data_completeness_pct"
                            THEN CompletenessPct(d1.rows[i])
                            ELSE d1.rows[i][c]]]]
      d3 == SetColumn(d2, "data_age_hours",
                 [i \in 1..Len(d2.rows) |-> FreshAge(d2.rows[i])])
  IN SetColumn(d3, "data_source",
                 [i \in 1..Len(d3.rows) |-> YahooFinanceLabel(d3.rows[i])])

\* IntegratedDigestSystem._enrich_stock_data; its _add_calculated_metrics
\* and _ensure_required_fields are those of MultiSourceStockDataSystem
IntegratedEnrichStockData(df) ==
  IntegratedAddDataQualityIndicators(
    EnsureRequiredFields(AddCalculatedMetrics(df)))

\* the column sets of the datasets handed to the Enrichment Stage
ColumnSets ==
  { {"ticker"},
    {"ticker", "current_price", "prev_close", "volume", "avg_volume_30d",
     "market_cap"},
    {"ticker", "pe_ratio", "eps_growth", "rsi", "data_source"},
    {"ticker"} \cup DOMAIN RequiredFields }

\* how a row is filled: every cell missing, every cell zero, or a quote
Profiles == {"nan", "zero", "quote"}

QuoteCells ==
  [current_price |-> 12500, prev_close |-> 10000, volume |-> 1500,
   avg_volume_30d |-> 1200, market_cap |-> 51000, pe_ratio |-> 1700,
   eps_growth |-> 14, rsi |-> 5800, data_source |-> 1]

Cell(profile, c, i) ==
  IF c = "ticker" THEN i
  ELSE IF profile = "nan" THEN NaN
  ELSE IF profile = "zero" THEN 0
  ELSE IF c \in DOMAIN QuoteCells THEN QuoteCells[c]
  ELSE RequiredFields[c] + 1

\* the datasets handed to the Enrichment Stage
Datasets ==
  UNION {{[cols |-> cs,
           rows |-> [i \in 1..n |-> [c \in cs |-> Cell(p[i], c, i)]]] :
            cs \in ColumnSets, p \in [1..n -> Profiles]} :
         n \in 0..MaxFrameRows}

\* ------------------------------------------------- Fallback Orchestrator
\* _can_call_apis_today that looks at availability only
CanCallApisTodayNoBudget(m, t) ==
  /\ source_status.enhanced_caching
  /\ source_status.yahoo_finance \/ source_status.alpha_vantage

\* SmartCacheFirstSystem._can_call_apis_today: the answer
CanCallApisToday(m, t) ==
  /\ source_status.enhanced_caching
  /\ \/ source_status.yahoo_finance /\ CanCallResult(m, Yahoo, t)
     \/ source_status.alpha_vantage /\ CanCallResult(m, Alpha, t)

\* SmartCacheFirstSystem._can_call_apis_today: the metadata it leaves; the
\* Alpha Vantage budget is only looked at when Yahoo Finance may not be called
CanCallApisMeta(m, t) ==
  LET ycheck == source_status.enhanced_caching /\ source_status.yahoo_finance
      m1 == IF ycheck THEN CanCallMeta(m, Yahoo, t) ELSE m
      ycan == ycheck /\ CanCallResult(m, Yahoo, t)
      acheck == /\ source_status.enhanced_caching /\ ~ycan
                /\ source_status.alpha_vantage
  IN IF acheck THEN CanCallMeta(m1, Alpha, t) ELSE m1

\* the dict _generate_sample_data builds for the ticker at (zero-based)
\* index i: the keys the code writes, and next to them the three fields
\* every record of the model has (origin, at, val). market_cap is in
\* millions.
SampleRecord(ticker, i, t) ==
  [ticker |-> ticker, origin |-> "sample", at |-> t, val |-> 100 + i * 25,
   company_name |-> <<ticker, " Corporation">>,
   sector |-> "Technology",
   current_price |-> 100 + i * 25,
   change |-> i * 2 - 5,
   volume |-> 1000000 + i * 500000,
   market_cap |-> 1000 + i * 50000,
   pe_ratio |-> 15 + i * 2,
   data_source |-> "Sample Data (Cache Fallback)",
   data_collected_at |-> t]

\* SmartCacheFirstSystem._generate_sample_data
GenerateSampleData(tickers, t) ==
  [i \in 1..Len(tickers) |-> SampleRecord(tickers[i], i - 1, t)]

\* what the cache directory can hold when it is listed: no *stock_data*.csv
\* file, one that cannot be read, or a snapshot written by an earlier run
CsvFiles ==
  { [exists |-> FALSE, readable |-> FALSE, rows |-> <<>>],
    [exists |-> TRUE, readable |-> FALSE, rows |-> <<>>],
    [exists |-> TRUE, readable |-> TRUE,
     rows |-> <<Rec("AAPL", "local_csv", 0, 1)>>] }

\* SmartCacheFirstSystem._get_local_cache_data
GetLocalCacheData(tickers, csv) ==
  IF ~csv.exists \/ ~csv.readable THEN <<>>
  ELSE FilterTickers(csv.rows, tickers)

\* SmartCacheFirstSystem._get_from_enhanced_cache, reading the combined
\* index; cfail: the storage layer fails under get_from_cache
GetFromEnhancedCache(tickers, cfail, t) ==
  LET found == SelectSeq(tickers, LAMBDA x :
                 ~cfail /\ GetFromCache(x, NoSource, DefaultMaxAgeHours, t) # NotFound)
  IN [i \in 1..Len(found) |->
        GetFromCache(found[i], NoSource, DefaultMaxAgeHours, t)]

\* _use_cache_only that returns the enhanced cache's batch as it is
UseCacheOnlyNoSample(tickers, csvfile, cfail, t) ==
  LET csv == GetLocalCacheData(tickers, csvfile)
      enh == IF source_status.enhanced_caching
             THEN GetFromEnhancedCache(tickers, cfail, t) ELSE <<>>
  IN IF csv # <<>> THEN [tier |-> "local_csv", result |-> csv]
     ELSE [tier |-> "enhanced_cache", result |-> enh]

\* SmartCacheFirstSystem._use_cache_only: the tier that answers and its batch
UseCacheOnly(tickers, csvfile, cfail, t) ==
  LET csv == GetLocalCacheData(tickers, csvfile)
      enh == IF source_status.enhanced_caching
             THEN GetFromEnhancedCache(tickers, cfail, t) ELSE <<>>
  IN IF csv # <<>> THEN [tier |-> "local_csv", result |-> csv]
     ELSE IF enh # <<>> THEN [tier |-> "enhanced_cache", result |-> enh]
     ELSE [tier |-> "sample", result |-> GenerateSampleData(tickers, t)]

\* SmartCacheFirstSystem._store_data_in_enhanced_cache: the tables after
\* save_to_cache ran for every row whose save did not fail (sfail)
RECURSIVE StoreRows(_, _, _, _, _, _)
StoreRows(tabs, source, data, sfail, t, i) ==
  IF i > Len(data) THEN tabs
  ELSE LET r == data[i]
           next == IF r.ticker \in sfail THEN tabs
                   ELSE [y |-> SaveYahoo(tabs.y, source, r.ticker, r, t),
                         a |-> SaveAlpha(tabs.a, source, r.ticker, r, t),
                         c |-> SaveCombined(tabs.c, source, r.ticker, r, t),
                         p |-> [tabs.p EXCEPT
                                  ![<<source, r.ticker>>] = [at |-> t, data |-> r],
                                  ![<<NoSource, r.ticker>>] = [at |-> t, data |-> r]]]
       IN StoreRows(next, source, data, sfail, t, i + 1)

\* _store_data_in_enhanced_cache that records the success but not the call
StoreMetaNoCall(m, source, t) ==
  RecordSuccessMeta(m, source, t)

\* SmartCacheFirstSystem._store_data_in_enhanced_cache: the budget metadata
\* after record_api_call and record_successful_update
StoreMeta(m, source, t) ==
  RecordSuccessMeta(RecordCallMeta(m, source, t), source, t)

\* the state a get_stock_data_smart call leaves and what it returns; sfail:
\* the tickers whose save_to_cache hit a storage error
Returns(tickers, force_refresh, m, y, tabs, tried, recorded, tier, result, sfail) ==
  /\ Cardinality(tabs.y) + Cardinality(tabs.a) <= MaxRows
  /\ metadata' = m
  /\ metadata_file' = IF m # metadata
                      THEN SaveMetadata(m, metadata_file, "ok")
                      ELSE metadata_file
  /\ called_on' = [s \in Sources |->
                     IF s \in recorded THEN DateOf(now) ELSE called_on[s]]
  /\ yahoo_finance_cache' = tabs.y
  /\ alpha_vantage_cache' = tabs.a
  /\ combined_cache' = tabs.c
  /\ latest_put' = tabs.p
  /\ y_last_api_call' = y.last_api_call
  /\ y_stocks' = y.stocks
  /\ y_json' = y.json
  /\ y_api_calls' = IF y.api THEN y_api_calls + 1 ELSE y_api_calls
  /\ invoked' = [s \in Sources |->
                   IF s \in tried THEN invoked[s] + 1 ELSE invoked[s]]
  /\ last' = [tickers |-> tickers,
              force_refresh |-> force_refresh,
              could |-> {s \in Sources :
                           /\ source_status[s]
                           /\ source_status.enhanced_caching
                           /\ CanCallResult(metadata, s, now)},
              tried |-> tried, recorded |-> recorded, tier |-> tier,
              result |-> result, yahoo_raised |-> y.raised,
              save_failed |-> sfail, sample_failed |-> FALSE,
              raised |-> FALSE]
  /\ obs' = NoObs
  /\ UNCHANGED <<now, envVars>>

Tabs == [y |-> yahoo_finance_cache, a |-> alpha_vantage_cache,
         c |-> combined_cache, p |-> latest_put]

YahooIdle == [raised |-> FALSE, data |-> <<>>, api |-> FALSE,
              last_api_call |-> y_last_api_call, stocks |-> y_stocks,
              json |-> y_json]

\* the last step of a call that first records a call for every adapter it
\* tried
CacheOnlyStepRecordsTried(tickers, force_refresh, m, y, tried) ==
  \E csvfile \in CsvFiles, cfail \in BOOLEAN :
     LET c == UseCacheOnly(tickers, csvfile, cfail, now)
         m1 == IF Yahoo \in tried THEN RecordCallMeta(m, Yahoo, now) ELSE m
         m2 == IF Alpha \in tried THEN RecordCallMeta(m1, Alpha, now) ELSE m1
     IN Returns(tickers, force_refresh, m2, y, Tabs, tried, {}, c.tier,
                c.result, {})

\* _use_cache_only as the last step of a call
CacheOnlyStep(tickers, force_refresh, m, y, tried) ==
  \E csvfile \in CsvFiles, cfail \in BOOLEAN :
     LET c == UseCacheOnly(tickers, csvfile, cfail, now)
     IN Returns(tickers, force_refresh, m, y, Tabs, tried, {}, c.tier, c.result,
                {})

\* the Alpha Vantage attempt that also records a call for every adapter
\* tried before it
AlphaStepRecordsTried(tickers, force_refresh, m, y, tried) ==
  IF source_status.alpha_vantage
  THEN \E alive \in {{}, Range(tickers)} :
         LET alpha_data == CollectAlphaVantageData(tickers, alive, now)
             mt == IF Yahoo \in tried THEN StoreMeta(m, Yahoo, now) ELSE m
         IN IF alpha_data # <<>>
            THEN \E sfail \in {{}, Range(tickers)} :
                   Returns(tickers, force_refresh, StoreMeta(mt, Alpha, now), y,
                           StoreRows(Tabs, Alpha, alpha_data, sfail, now, 1),
                           tried \cup {Alpha}, tried \cup {Alpha}, Alpha,
                           alpha_data, sfail)
            ELSE CacheOnlyStep(tickers, force_refresh, m, y, tried \cup {Alpha})
  ELSE CacheOnlyStep(tickers, force_refresh, m, y, tried)

\* _collect_fresh_data from the Alpha Vantage attempt on
AlphaStep(tickers, force_refresh, m, y, tried) ==
  IF source_status.alpha_vantage
  THEN \E alive \in {{}, Range(tickers)} :
         LET alpha_data == CollectAlphaVantageData(tickers, alive, now)
         IN IF alpha_data # <<>>
            THEN \E sfail \in {{}, Range(tickers)} :
                   Returns(tickers, force_refresh, StoreMeta(m, Alpha, now), y,
                           StoreRows(Tabs, Alpha, alpha_data, sfail, now, 1),
                           tried \cup {Alpha}, {Alpha}, Alpha, alpha_data,
                           sfail)
            ELSE CacheOnlyStep(tickers, force_refresh, m, y, tried \cup {Alpha})
  ELSE CacheOnlyStep(tickers, force_refresh, m, y, tried)

\* SmartCacheFirstSystem._collect_fresh_data
CollectFreshData(tickers, force_refresh, m) ==
  IF source_status.yahoo_finance
  THEN \E o \in YahooOutcomes(tickers) :
         LET y == YahooGetStockData(tickers, TRUE, o.live, o.ysave,
                                    o.yloadfail, now)
         IN IF ~y.raised /\ y.data # <<>>
            THEN \E sfail \in {{}, Range(tickers)} :
                   Returns(tickers, force_refresh, StoreMeta(m, Yahoo, now), y,
                           StoreRows(Tabs, Yahoo, y.data, sfail, now, 1),
                           {Yahoo}, {Yahoo}, Yahoo, y.data, sfail)
            ELSE AlphaStep(tickers, force_refresh, m, y, {Yahoo})
  ELSE AlphaStep(tickers, force_refresh, m, YahooIdle, {})

\* SmartCacheFirstSystem.get_stock_data_smart(tickers, force_refresh)
GetStockDataSmart(tickers, force_refresh) ==
  /\ \A s \in Sources : metadata[s].daily_calls < MaxCalls /\ invoked[s] < MaxCalls
  /\ LET can_call_apis == CanCallApisToday(metadata, now)
         m == CanCallApisMeta(metadata, now)
     IN IF can_call_apis /\ ~force_refresh
        THEN CollectFreshData(tickers, force_refresh, m)
        ELSE CacheOnlyStep(tickers, force_refresh, m, YahooIdle, {})

\* get_stock_data_smart(None, force_refresh): len(tickers) raises before the
\* budget is consulted and the handler goes to _use_cache_only, where the
\* CSV filter and the loop over the tickers raise inside their own handlers
\* and _generate_sample_data raises on len(tickers), logs it and returns an
\* empty frame, which is what the call returns
GetStockDataSmartNone(force_refresh) ==
  /\ last' = [NoLast EXCEPT !.force_refresh = force_refresh,
                            !.tier = "sample",
                            !.sample_failed = TRUE,
                            !.result = <<>>,
                            !.raised = FALSE]
  /\ obs' = NoObs
  /\ UNCHANGED <<now, trackerVars, storeVars, yahooVars, envVars, invoked>>

\* ---- get_stock_data_smart(tickers, False) of a background task, step by
\* ---- step: another thread can run between two calls the handler makes
\* the task enters the handler and asks _can_call_apis_today; saw and
\* checked_on keep what the tracker held when it asked
TaskCheck(t, tickers) ==
  /\ tasks[t].pc = "idle"
  /\ \A s \in Sources : metadata[s].daily_calls < MaxCalls /\ invoked[s] < MaxCalls
  /\ metadata' = CanCallApisMeta(metadata, now)
  /\ metadata_file' = IF metadata' # metadata
                      THEN SaveMetadata(metadata', metadata_file, "ok")
                      ELSE metadata_file
  /\ tasks' = [tasks EXCEPT ![t] =
                 [pc |-> IF CanCallApisToday(metadata, now)
                         THEN "yahoo" ELSE "cache",
                  tickers |-> tickers, source |-> NoSource, data |-> <<>>,
                  checked_on |-> DateOf(now),
                  saw |-> [s \in Sources |-> metadata'[s].daily_calls]]]
  /\ obs' = NoObs
  /\ last' = NoLast
  /\ UNCHANGED <<now, called_on, storeVars, yahooVars, source_status,
                 enrichment, other_metadata, invoked>>

\* _collect_fresh_data, the Yahoo Finance attempt
TaskYahoo(t) ==
  /\ tasks[t].pc = "yahoo"
  /\ IF source_status.yahoo_finance
     THEN \E o \in YahooOutcomes(tasks[t].tickers) :
            LET y == YahooGetStockData(tasks[t].tickers, TRUE, o.live, o.ysave,
                                       o.yloadfail, now)
            IN /\ y_last_api_call' = y.last_api_call
               /\ y_stocks' = y.stocks
               /\ y_json' = y.json
               /\ y_api_calls' = IF y.api THEN y_api_calls + 1 ELSE y_api_calls
               /\ invoked' = [invoked EXCEPT ![Yahoo] = @ + 1]
               /\ tasks' = [tasks EXCEPT ![t] =
                              IF ~y.raised /\ y.data # <<>>
                              THEN [@ EXCEPT !.pc = "store", !.source = Yahoo,
                                             !.data = y.data]
                              ELSE [@ EXCEPT !.pc = "alpha"]]
     ELSE /\ tasks' = [tasks EXCEPT ![t].pc = "alpha"]
          /\ UNCHANGED <<yahooVars, invoked>>
  /\ obs' = NoObs
  /\ last' = NoLast
  /\ UNCHANGED <<now, trackerVars, storeVars, source_status, enrichment,
                 other_metadata>>

\* _collect_fresh_data, the Alpha Vantage attempt
TaskAlpha(t) ==
  /\ tasks[t].pc = "alpha"
  /\ IF source_status.alpha_vantage
     THEN \E alive \in {{}, Range(tasks[t].tickers)} :
            LET alpha_data ==
                  CollectAlphaVantageData(tasks[t].tickers, alive, now)
            IN /\ invoked' = [invoked EXCEPT ![Alpha] = @ + 1]
               /\ tasks' = [tasks EXCEPT ![t] =
                              IF alpha_data # <<>>
                              THEN [@ EXCEPT !.pc = "store", !.source = Alpha,
                                             !.data = alpha_data]
                              ELSE [@ EXCEPT !.pc = "cache"]]
     ELSE /\ tasks' = [tasks EXCEPT ![t].pc = "cache"]
          /\ UNCHANGED invoked
  /\ obs' = NoObs
  /\ last' = NoLast
  /\ UNCHANGED <<now, trackerVars, storeVars, yahooVars, source_status,
                 enrichment, other_metadata>>

\* _store_data_in_enhanced_cache that asks can_call_api_today again and
\* records the call only when the budget still allows it
TaskStoreRechecks(t) ==
  LET src == tasks[t].source
      tabs == StoreRows(Tabs, src, tasks[t].data, {}, now, 1)
  IN /\ tasks[t].pc = "store"
     /\ Cardinality(tabs.y) + Cardinality(tabs.a) <= MaxRows
     /\ metadata' = IF CanCallResult(metadata, src, now)
                    THEN StoreMeta(metadata, src, now) ELSE metadata
     /\ metadata_file' = SaveMetadata(metadata', metadata_file, "ok")
     /\ called_on' = [called_on EXCEPT ![src] = DateOf(now)]
     /\ yahoo_finance_cache' = tabs.y
     /\ alpha_vantage_cache' = tabs.a
     /\ combined_cache' = tabs.c
     /\ latest_put' = tabs.p
     /\ tasks' = [tasks EXCEPT ![t].pc = "idle"]
     /\ last' = [NoLast EXCEPT !.tickers = tasks[t].tickers,
                               !.tried = {src}, !.recorded = {src},
                               !.tier = src, !.result = tasks[t].data]
     /\ obs' = NoObs
     /\ UNCHANGED <<now, yahooVars, source_status, enrichment, other_metadata,
                    invoked>>

\* _store_data_in_enhanced_cache and the return of the batch
TaskStore(t) ==
  LET src == tasks[t].source
      tabs == StoreRows(Tabs, src, tasks[t].data, {}, now, 1)
  IN /\ tasks[t].pc = "store"
     /\ Cardinality(tabs.y) + Cardinality(tabs.a) <= MaxRows
     /\ metadata' = StoreMeta(metadata, src, now)
     /\ metadata_file' = SaveMetadata(metadata', metadata_file, "ok")
     /\ called_on' = [called_on EXCEPT ![src] = DateOf(now)]
     /\ yahoo_finance_cache' = tabs.y
     /\ alpha_vantage_cache' = tabs.a
     /\ combined_cache' = tabs.c
     /\ latest_put' = tabs.p
     /\ tasks' = [tasks EXCEPT ![t].pc = "idle"]
     /\ last' = [NoLast EXCEPT !.tickers = tasks[t].tickers,
                               !.tried = {src}, !.recorded = {src},
                               !.tier = src, !.result = tasks[t].data]
     /\ obs' = NoObs
     /\ UNCHANGED <<now, yahooVars, source_status, enrichment, other_metadata,
                    invoked>>

\* _use_cache_only and the return of its batch
TaskCache(t) ==
  /\ tasks[t].pc = "cache"
  /\ \E csvfile \in CsvFiles, cfail \in BOOLEAN :
       LET c == UseCacheOnly(tasks[t].tickers, csvfile, cfail, now)
       IN last' = [NoLast EXCEPT !.tickers = tasks[t].tickers,
                                 !.tier = c.tier, !.result = c.result]
  /\ tasks' = [tasks EXCEPT ![t].pc = "idle"]
  /\ obs' = NoObs
  /\ UNCHANGED <<now, trackerVars, storeVars, yahooVars, source_status,
                 enrichment, other_metadata, invoked>>

\* IntegratedDigestSystem._enrich_stock_data applied to the dataset the stage
\* holds: the Yahoo batch, the cached batch or the sample batch of
\* get_comprehensive_stock_data
IntegratedEnrichStockDataOp ==
  /\ enrichment.passes < MaxPasses
  /\ enrichment' = [enrichment EXCEPT
                      !.prev = enrichment.out,
                      !.out = IntegratedEnrichStockData(enrichment.out),
                      !.passes = @ + 1]
  /\ UNCHANGED <<now, trackerVars, storeVars, yahooVars, source_status, tasks,
                 other_metadata, invoked, last, obs>>

\* SmartCacheFirstSystem.get_system_status
GetSystemStatus ==
  /\ metadata' = IF source_status.enhanced_caching
                 THEN CanCallMeta(CanCallMeta(metadata, Yahoo, now), Alpha, now)
                 ELSE metadata
  /\ metadata_file' = IF metadata' # metadata
                      THEN SaveMetadata(metadata', metadata_file, "ok")
                      ELSE metadata_file
  /\ obs' = NoObs
  /\ last' = NoLast
  /\ UNCHANGED <<now, called_on, storeVars, yahooVars, envVars, invoked>>

\* MultiSourceStockDataSystem._enrich_stock_data applied to the dataset the
\* stage holds
EnrichStockDataOp ==
  /\ enrichment.passes < MaxPasses
  /\ enrichment' = [enrichment EXCEPT !.prev = enrichment.out,
                                      !.out = EnrichStockData(enrichment.out),
                                      !.passes = @ + 1]
  /\ UNCHANGED <<now, trackerVars, storeVars, yahooVars, source_status, tasks,
                 other_metadata,
                 invoked, last, obs>>

Next ==
  \/ Tick
  \/ \E q \in Requests, f \in BOOLEAN : GetStockDataSmart(q, f)
  \/ GetSystemStatus

Spec == Init /\ [][Next]_vars

\* the orchestrator with requests whose ticker list is None
FatalNext ==
  \/ Next
  \/ \E f \in BOOLEAN : GetStockDataSmartNone(f)

SpecFatal == Init /\ [][FatalNext]_vars

TrackerNext ==
  \/ Tick
  \/ \E s \in Sources : CanCallApiToday(s, "ok")
  \/ \E s \in Sources : RecordApiCall(s, "ok")
  \/ \E s \in Sources : RecordSuccessfulUpdate(s, "ok")

StoreNext ==
  \/ Tick
  \/ \E s \in Sources, t \in Tickers, v \in Vals, f \in BOOLEAN :
       SaveToCache(s, t, Rec(t, s, now, v), f)
  \/ \E t \in Tickers, s \in Sources \cup {NoSource}, h \in MaxAges,
        f \in BOOLEAN :
       GetFromCacheOp(t, s, h, f)

SpecTracker == InitCache /\ [][TrackerNext]_vars
SpecStore == InitCache /\ [][StoreNext]_vars

\* the tracker over process restarts, with writes of the metadata file that
\* fail
RestartNext ==
  \/ Tick
  \/ \E s \in Sources, w \in SaveOutcomes : CanCallApiToday(s, w)
  \/ \E s \in Sources, w \in SaveOutcomes : RecordApiCall(s, w)
  \/ \E s \in Sources, w \in SaveOutcomes : RecordSuccessfulUpdate(s, w)
  \/ Restart

SpecRestart == InitCache /\ [][RestartNext]_vars

\* the Yahoo adapter called directly, never with force_refresh
YahooNext ==
  \/ Tick
  \/ \E q \in Requests : \E o \in YahooOutcomes(q) :
       YahooGetStockDataOp(q, FALSE, o)

SpecYahoo == InitCache /\ [][YahooNext]_vars

\* two background tasks inside get_stock_data_smart at the same time
ConcurrentNext ==
  \/ Tick
  \/ \E t \in TaskIds : TaskCheck(t, DigestTickers)
  \/ \E t \in TaskIds : TaskYahoo(t)
  \/ \E t \in TaskIds : TaskAlpha(t)
  \/ \E t \in TaskIds : TaskStore(t)
  \/ \E t \in TaskIds : TaskCache(t)

SpecConcurrent == InitCache /\ [][ConcurrentNext]_vars

\* two tracker instances of one process, their operations one after the
\* other
InstancesNext ==
  \/ Tick
  \/ \E s \in Sources : CanCallApiToday(s, "ok")
  \/ \E s \in Sources : RecordApiCall(s, "ok")
  \/ OtherConstruct
  \/ \E s \in Sources : OtherCanCallApiToday(s)
  \/ \E s \in Sources : OtherRecordApiCall(s)

SpecInstances == InitCache /\ [][InstancesNext]_vars

\* one tracker instance with the store operations and get_system_status in
\* between its own
BudgetOpsNext ==
  \/ Tick
  \/ \E s \in Sources : CanCallApiToday(s, "ok")
  \/ \E s \in Sources : RecordApiCall(s, "ok")
  \/ \E s \in Sources : RecordSuccessfulUpdate(s, "ok")
  \/ \E s \in Sources :
       SaveToCache(s, DigestTickers[1], Rec(DigestTickers[1], s, now, 1), FALSE)
  \/ \E s \in Sources \cup {NoSource} :
       GetFromCacheOp(DigestTickers[1], s, DefaultMaxAgeHours, FALSE)
  \/ \E d \in MaxAgeDays : CleanupOldCache(d, FALSE)
  \/ GetSystemStatus

SpecBudgetOps == InitCache /\ [][BudgetOpsNext]_vars

\* the tracker over restarts with a metadata file that a failed write left
\* unreadable, and with checks whose body raises
FailOpenNext ==
  \/ Tick
  \/ \E s \in Sources : CanCallApiToday(s, "ok")
  \/ \E s \in Sources : CanCallApiTodayRaising(s)
  \/ \E s \in Sources, w \in SaveOutcomes : RecordApiCall(s, w)
  \/ Restart

SpecFailOpen == InitCache /\ [][FailOpenNext]_vars

\* the store with its listing and its maintenance operation
StoreOpsNext ==
  \/ StoreNext
  \/ \E s \in Sources \cup {NoSource}, f \in BOOLEAN : GetAllCachedTickers(s, f)
  \/ \E d \in MaxAgeDays, f \in BOOLEAN : CleanupOldCache(d, f)

SpecStoreOps == InitCache /\ [][StoreOpsNext]_vars

\* the Enrichment Stage on its own, over every dataset of Datasets
InitEnrich ==
  \E d \in Datasets :
     /\ InitWith([input |-> d, prev |-> d, out |-> d, passes |-> 0])
     /\ source_status = [yahoo_finance |-> TRUE, alpha_vantage |-> TRUE,
                         enhanced_caching |-> TRUE]

EnrichNext == EnrichStockDataOp

SpecEnrich == InitEnrich /\ [][EnrichNext]_vars

\* the Enrichment Stage with both of its implementations
EnrichAllNext ==
  \/ EnrichStockDataOp
  \/ IntegratedEnrichStockDataOp

SpecEnrichAll == InitEnrich /\ [][EnrichAllNext]_vars

\* ===================================================================
\* Properties
\* ===================================================================
Called == last.tier # "none"
CacheTiers == {"local_csv", "enhanced_cache", "sample"}
Today == DateOf(now)

\* C1: inside one calendar day, over any sequence of get_stock_data_smart
\* calls (the adapters are reached only by calls with force_refresh =
\* false), each source adapter is invoked at most once.
C1_AtMostOncePerDay == \A s \in Sources : invoked[s] <= 1

\* C2: with max_daily_calls = 1, a can_call_api_today(source) evaluated on
\* the date of the last record_api_call(source) answers false, and one
\* evaluated on a later date answers true.
C2_OncePerDay ==
  obs.op = "can_call" =>
    /\ called_on[obs.source] = Today => ~obs.answer
    /\ (called_on[obs.source] # None /\ called_on[obs.source] < Today)
         => obs.answer

C2_Witness ==
  /\ obs.op = "can_call" /\ ~obs.answer
  /\ called_on[obs.source] = Today
  /\ metadata[obs.source].daily_calls = DefaultMaxDailyCalls

\* C3: after sequential get_stock_data_smart calls, a source's daily_calls
\* for the current day never exceeds its max_daily_calls.
C3_CountWithinBudget ==
  \A s \in Sources :
    (metadata[s].last_api_call # None
       /\ DateOf(metadata[s].last_api_call) = Today)
      => metadata[s].daily_calls <= metadata[s].max_daily_calls

\* C4: for a non-empty ticker list, whatever the adapters and the cache
\* stores do (unavailable, raise, empty, non-empty, storage error), the call
\* returns a non-empty batch from one of the tiers, one record at least for
\* a requested ticker.
C4_AlwaysSomeDataset ==
  Called =>
    /\ last.result # <<>>
    /\ last.tier \in Sources \cup CacheTiers
    /\ \A i \in 1..Len(last.result) :
         last.result[i].ticker \in Range(last.tickers)

C4_Witness ==
  /\ Called /\ last.yahoo_raised /\ Alpha \in last.tried
  /\ last.tier = "sample" /\ Len(last.result) = Len(last.tickers)

\* C5: Alpha Vantage is invoked only after Yahoo Finance was unavailable or
\* was invoked and gave no batch; when Yahoo Finance raises and Alpha
\* Vantage returns a batch, the result is that batch alone and a call is
\* recorded for Alpha Vantage only.
C5_PriorityOrder ==
  [][Called' =>
       /\ Alpha \in last'.tried =>
            /\ source_status.yahoo_finance => Yahoo \in last'.tried
            /\ last'.tier # Yahoo
            /\ Yahoo \notin last'.recorded
       /\ Yahoo \in last'.tried => source_status.yahoo_finance
       /\ (last'.yahoo_raised /\ last'.tier = Alpha) =>
            /\ last'.result # <<>>
            /\ \A i \in 1..Len(last'.result) :
                 last'.result[i].origin = Alpha
            /\ last'.recorded = {Alpha}
            /\ metadata'[Alpha].last_api_call = now
            /\ metadata'[Alpha].daily_calls >= 1
            /\ metadata'[Yahoo].last_api_call = metadata[Yahoo].last_api_call
            /\ metadata'[Yahoo].daily_calls <= metadata[Yahoo].daily_calls
            /\ called_on'[Yahoo] = called_on[Yahoo]
    ]_vars

C5_Witness ==
  /\ Called /\ last.yahoo_raised /\ last.tier = Alpha
  /\ last.recorded = {Alpha} /\ metadata[Yahoo].last_api_call = None

\* C6: every batch returned holds records of one origin only, never of two
\* different adapters, the batches of the durable-cache tier included.
C6_SingleProvenance ==
  Called =>
    \A i, j \in 1..Len(last.result) :
       last.result[i].origin = last.result[j].origin

\* C7: with force_refresh false and no available adapter allowed by the
\* budget, no adapter is invoked and the batch comes from the cache-only path.
C7_ExhaustedBudgetUsesCache ==
  (Called /\ ~last.force_refresh /\ last.could = {}) =>
    /\ last.tried = {}
    /\ last.recorded = {}
    /\ last.tier \in CacheTiers

C7_Witness ==
  /\ Called /\ ~last.force_refresh /\ last.could = {}
  /\ source_status.yahoo_finance /\ source_status.enhanced_caching
  /\ called_on[Yahoo] = Today
  /\ last.tier \in CacheTiers

\* C8: with force_refresh true and an adapter available, the call attempts
\* an adapter before it serves from the cache or the sample generator.
C8_ForceRefreshAttemptsLive ==
  (Called /\ last.force_refresh
     /\ (source_status.yahoo_finance \/ source_status.alpha_vantage))
    => last.tried # {}

\* C9: get_from_cache(ticker, source, max_age_hours = H) returns the record
\* of the last committed save for the key when its age is at most H hours
\* and not-found when it is older.
C9_FreshnessBoundary ==
  (obs.op = "get" /\ obs.answer) =>
    LET p == latest_put[<<obs.source, obs.ticker>>]
    IN IF p.at = None THEN obs.data = NotFound
       ELSE IF AgeHours(now, p.at) <= obs.max_age THEN obs.data = p.data
       ELSE obs.data = NotFound

C9_Witness ==
  /\ obs.op = "get" /\ obs.answer /\ obs.source \in Sources
  /\ latest_put[<<obs.source, obs.ticker>>].at # None
  /\ AgeHours(now, latest_put[<<obs.source, obs.ticker>>].at) = obs.max_age
  /\ obs.max_age = DefaultMaxAgeHours
  /\ obs.data = latest_put[<<obs.source, obs.ticker>>].data

\* the rows of a table under a key, and the rows under every other key
RowsAt(table, ticker, date) ==
  {r \in table : r.ticker = ticker /\ r.cache_date = date}
RowsElsewhere(table, ticker, date) ==
  {r \in table : ~(r.ticker = ticker /\ r.cache_date = date)}

\* C10: a committed save_to_cache(source, ticker, data), also one that
\* overwrites an earlier save of the same source, ticker and date, leaves
\* exactly one row for (ticker, source, today), get_from_cache(ticker,
\* source) then returns data, and the rows under every other key are
\* unchanged.
C10_Upsert ==
  [][(obs'.op = "put" /\ obs'.answer) =>
       LET s == obs'.source
           k == obs'.ticker
           mine == IF s = Yahoo THEN yahoo_finance_cache
                   ELSE alpha_vantage_cache
           mine2 == IF s = Yahoo THEN yahoo_finance_cache'
                    ELSE alpha_vantage_cache'
       IN /\ Cardinality(RowsAt(mine2, k, Today)) = 1
          /\ Cardinality(RowsAt(combined_cache', k, Today)) = 1
          /\ GetFrom(yahoo_finance_cache', alpha_vantage_cache',
                     combined_cache', k, s, DefaultMaxAgeHours, now)
               = obs'.data
          /\ RowsElsewhere(mine2, k, Today) = RowsElsewhere(mine, k, Today)
          /\ RowsElsewhere(combined_cache', k, Today)
               = RowsElsewhere(combined_cache, k, Today)
          /\ s = Yahoo => alpha_vantage_cache' = alpha_vantage_cache
          /\ s = Alpha => yahoo_finance_cache' = yahoo_finance_cache
    ]_vars

C10_Witness ==
  /\ obs.op = "put" /\ obs.answer /\ obs.replaced
  /\ Cardinality(RowsAt(Table(obs.source), obs.ticker, Today)) = 1
  /\ GetFromCache(obs.ticker, obs.source, DefaultMaxAgeHours, now) = obs.data

\* the call was answered live by an adapter
LiveSuccess == Called /\ last.tier \in Sources

\* what holds after a live success whose batch was stored
AfterLiveSuccess ==
  LET s == last.tier
  IN /\ last.result # <<>>
     /\ \A i \in 1..Len(last.result) : last.result[i].origin = s
     /\ last.recorded = {s}
     /\ metadata[s].last_api_call = now
     /\ metadata[s].last_successful_update = now
     /\ metadata[s].daily_calls >= 1
     /\ ~CanCallResult(metadata, s, now)
     /\ \A i \in 1..Len(last.result) :
          GetFromCache(last.result[i].ticker, s, DefaultMaxAgeHours, now)
            = last.result[i]

SyntheticFallback ==
  /\ Called /\ last.tier = "sample"
  /\ ~source_status.yahoo_finance /\ ~source_status.alpha_vantage

\* C12: when no adapter is available and every cache path is empty, the
\* batch returned holds one record per requested ticker in request order,
\* tagged with the sample data_source, with values that depend on the index
\* only, and every record has every required field.
C12_SyntheticComplete ==
  SyntheticFallback =>
    /\ Len(last.result) = Len(last.tickers)
    /\ \A i \in 1..Len(last.result) :
         LET r == last.result[i]
         IN /\ r.ticker = last.tickers[i]
            /\ r.data_source = "Sample Data (Cache Fallback)"
            /\ r.current_price = 100 + (i - 1) * 25
            /\ DOMAIN RequiredFields \subseteq DOMAIN r

\* C13: enriching an enriched dataset changes nothing:
\* enrich(enrich(d)) = enrich(d) column for column and cell for cell, the
\* derived ratios, data_completeness and data_completeness_pct included.
C13_EnrichIdempotent ==
  enrichment.passes >= 2 => enrichment.out = enrichment.prev

\* C14: after enrich(d) every row has every required field; a required
\* column that d did not have holds the default in every row, and one that
\* d had keeps its cells.
C14_StableSchema ==
  enrichment.passes >= 1 =>
    /\ DOMAIN RequiredFields \subseteq enrichment.out.cols
    /\ Len(enrichment.out.rows) = Len(enrichment.prev.rows)
    /\ \A i \in 1..Len(enrichment.out.rows) :
         \A f \in DOMAIN RequiredFields :
            /\ f \in DOMAIN enrichment.out.rows[i]
            /\ enrichment.out.rows[i][f] =
                 IF f \in enrichment.prev.cols
                 THEN enrichment.prev.rows[i][f]
                 ELSE RequiredFields[f]

C14_Witness ==
  /\ enrichment.passes = 1
  /\ Len(enrichment.out.rows) = 2
  /\ "rsi" \in enrichment.prev.cols /\ "roe" \notin enrichment.prev.cols
  /\ enrichment.out.rows[1].rsi = QuoteCells.rsi
  /\ enrichment.out.rows[2].rsi = NaN
  /\ enrichment.out.rows[1].roe = RequiredFields.roe

AllRows == <<yahoo_finance_cache, alpha_vantage_cache, combined_cache>>

\* C15: cleanup_old_cache(max_age_days) deletes from the three tables every
\* row whose cache_date is before the date of now minus max_age_days, leaves
\* every other row as it was, and returns the number of rows it deleted.
C15_CleanupDeletesAndCounts ==
  [][(obs'.op = "cleanup" /\ obs'.answer) =>
       LET cutoff == DateOf(now) - obs'.max_age
       IN /\ yahoo_finance_cache' =
               {r \in yahoo_finance_cache : r.cache_date >= cutoff}
          /\ alpha_vantage_cache' =
               {r \in alpha_vantage_cache : r.cache_date >= cutoff}
          /\ combined_cache' =
               {r \in combined_cache : r.cache_date >= cutoff}
          /\ obs'.deleted =
               Cardinality(yahoo_finance_cache \ yahoo_finance_cache')
                 + Cardinality(alpha_vantage_cache \ alpha_vantage_cache')
                 + Cardinality(combined_cache \ combined_cache')
          /\ obs'.returned = obs'.deleted
    ]_vars

\* C16: when the storage layer fails during get_from_cache,
\* get_all_cached_tickers or save_to_cache, the get answers not-found, the
\* listing answers the empty set, the save returns, and the rows committed
\* before are all still there, unchanged.
C16_StorageFailureDegrades ==
  [][(obs'.op \in {"get", "list", "put"} /\ ~obs'.answer) =>
       /\ obs'.op = "get" => obs'.data = NotFound
       /\ obs'.op = "list" => obs'.listed = {}
       /\ AllRows' = AllRows
       /\ latest_put' = latest_put
    ]_vars

C16_Witness ==
  /\ obs.op = "list" /\ ~obs.answer /\ obs.listed = {}
  /\ obs.source = Yahoo
  /\ DistinctTickers(Yahoo) = Tickers

\* what a tracker constructed on file would start with, against m: the same
\* daily_calls and last_api_call per source and the same can_call_api_today
StartsAs(file, m) ==
  \A s \in Sources :
     /\ LoadMetadata(file)[s].daily_calls = m[s].daily_calls
     /\ LoadMetadata(file)[s].last_api_call = m[s].last_api_call
     /\ CanCallResult(LoadMetadata(file), s, now) = CanCallResult(m, s, now)

C18_TotalUnavailabilityIsFatal ==
  Called =>
    /\ last.sample_failed => (last.raised /\ last.result = <<>>)
    /\ ~last.sample_failed => ~last.raised

\* C19: the first tracker operation on a source on a new calendar day, a
\* read (can_call_today) or a write (record_call), resets daily_call_count
\* to 0 before applying: the read leaves 0 and the write leaves 1, not the
\* previous day's count plus 1
C19_DayRolloverReset ==
  [][\A s \in Sources :
       (/\ obs'.source = s
        /\ metadata[s].present
        /\ metadata[s].last_api_call # None
        /\ DateOf(metadata[s].last_api_call) < DateOf(now))
       => /\ obs'.op = "can_call" => metadata'[s].daily_calls = 0
          /\ obs'.op = "record_call" => metadata'[s].daily_calls = 1]_vars

\* C20: over any sequence of get_stock_data calls with force_refresh = false
\* the adapter contacts the Yahoo Finance API at most once per calendar
\* day, also when the first contact of the day returned no data and there
\* is no cache for today or yesterday
C20_YahooApiOncePerDay == y_api_calls <= 1

\* C21: every record the cache-only path returns is for a requested ticker,
\* is the most recent record stored for that ticker in the Durable Cache
\* Store and is at most DefaultMaxAgeHours old at read time
C21_CacheOnlyFreshLatest ==
  (Called /\ last.tier \in {"local_csv", "enhanced_cache"}) =>
    \A i \in 1..Len(last.result) :
       LET r == last.result[i]
           p == latest_put[<<NoSource, r.ticker>>]
       IN /\ r.ticker \in Range(last.tickers)
          /\ p.at # None
          /\ r = p.data
          /\ AgeHours(now, p.at) <= DefaultMaxAgeHours

\* C22: two get_stock_data calls running at the same time can both pass
\* the budget check before either records its call: a task that passed the
\* check records its call when it stores, whatever the count has become,
\* so the adapter is invoked twice that day and daily_call_count reaches 2
\* with max_daily_calls = 1 (the state of C22_Witness)
C22_RecordsWithoutRecheck ==
  [][\A t \in TaskIds :
       (tasks[t].pc = "store" /\ tasks'[t].pc = "idle") =>
         metadata'[tasks[t].source].daily_calls =
           metadata[tasks[t].source].daily_calls + 1]_vars

C22_Witness ==
  /\ \A t \in TaskIds :
        /\ tasks[t].pc = "idle"
        /\ tasks[t].source = Yahoo
        /\ tasks[t].checked_on = DateOf(now)
        /\ tasks[t].saw[Yahoo] = 0
  /\ DateOf(metadata[Yahoo].last_api_call) = DateOf(now)
  /\ metadata[Yahoo].daily_calls = 2
  /\ metadata[Yahoo].max_daily_calls = 1
  /\ invoked[Yahoo] = 2

\* C23: with sequential operations on several tracker instances over the
\* same persisted state, once a call for a source is recorded through one
\* instance can_call_today(source) is false on every instance for the rest
\* of that day, and the persisted state keeps every call recorded that day
\* whichever instance writes next
C23_InstancesAgree ==
  /\ \A s \in Sources :
        (/\ obs.op \in {"can_call", "can_call_other"}
         /\ obs.source = s
         /\ called_on[s] = DateOf(now)) => ~obs.answer
  /\ \A s \in Sources :
        called_on[s] = DateOf(now) =>
          LET f == LoadMetadata(metadata_file)[s]
          IN /\ f.present
             /\ f.last_api_call # None
             /\ DateOf(f.last_api_call) = DateOf(now)
             /\ f.daily_calls >= 1

\* every (ticker, cache_date) of a per-source table is in combined_cache
InCombined ==
  \A s \in Sources : \A r \in Table(s) :
     \E c \in combined_cache :
        c.ticker = r.ticker /\ c.cache_date = r.cache_date

\* C24: save_to_cache writes the row of the source table and the row of
\* combined_cache, or neither; so over any sequence of save_to_cache,
\* get_from_cache, get_all_cached_tickers and cleanup_old_cache every
\* (ticker, cache_date) of a per-source table is also in combined_cache, and
\* a get_from_cache(ticker) without a source that returns a record returns
\* the one of the latest save for the ticker across the sources.
C24_PutAtomic ==
  [][/\ InCombined'
     /\ obs'.op = "put" =>
          LET s == obs'.source
              k == obs'.ticker
              mine == IF s = Yahoo THEN yahoo_finance_cache
                      ELSE alpha_vantage_cache
              mine2 == IF s = Yahoo THEN yahoo_finance_cache'
                       ELSE alpha_vantage_cache'
          IN \/ /\ SourceRow(k, obs'.data, now) \in mine2
                /\ CombinedRow(s, k, obs'.data, now) \in combined_cache'
             \/ /\ mine2 = mine
                /\ combined_cache' = combined_cache
     /\ (obs'.op = "get" /\ obs'.source = NoSource /\ obs'.data # NotFound) =>
          obs'.data = latest_put'[<<NoSource, obs'.ticker>>].data
    ]_vars

C24_Witness ==
  /\ obs.op = "get" /\ obs.source = NoSource /\ obs.data # NotFound
  /\ obs.data = latest_put[<<NoSource, obs.ticker>>].data
  /\ obs.data.origin = Alpha
  /\ \E r \in yahoo_finance_cache :
        r.ticker = obs.ticker /\ r.cache_date = Today
  /\ \E r \in alpha_vantage_cache :
        r.ticker = obs.ticker /\ r.cache_date = Today
  /\ metadata["last_cache_cleanup"] # None

\* C25: get_from_cache, get_all_cached_tickers and save_to_cache remove no
\* record stored under another (ticker, source, date) key: the reads leave
\* every row, a get that answers not-found for a record that is too old
\* leaves it stored (the same get with max_age_hours at its age returns
\* it), and a save leaves every row of the source tables but the one of its
\* own ticker, source and date, the row of the day before included
C25_NeverExpiredByReadOrWrite ==
  [][/\ obs'.op \in {"get", "list"} => AllRows' = AllRows
     /\ (obs'.op = "get" /\ obs'.answer /\ obs'.data = NotFound
           /\ latest_put[<<obs'.source, obs'.ticker>>].at # None) =>
          LET p == latest_put[<<obs'.source, obs'.ticker>>]
          IN GetFrom(yahoo_finance_cache', alpha_vantage_cache',
                     combined_cache', obs'.ticker, obs'.source,
                     AgeHours(now, p.at), now) = p.data
     /\ obs'.op = "put" =>
          /\ \A s \in Sources : \A r \in Table(s) :
                (s # obs'.source \/ r.ticker # obs'.ticker
                   \/ r.cache_date # Today) =>
                  r \in (IF s = Yahoo THEN yahoo_finance_cache'
                         ELSE alpha_vantage_cache')
          /\ \A r \in combined_cache :
                (r.ticker # obs'.ticker \/ r.cache_date # Today) =>
                  r \in combined_cache'
    ]_vars

C25_Witness ==
  /\ obs.op = "put" /\ obs.answer
  /\ \E r \in Table(obs.source) :
        r.ticker = obs.ticker /\ r.cache_date = Today
  /\ \E r \in Table(obs.source) :
        r.ticker = obs.ticker /\ r.cache_date = Today - 1

\* C26: enrichment, in each of its implementations, leaves the data_source
\* of every record that has one as it was and sets data_source only where
\* the dataset had no such field
C26_EnrichKeepsProvenance ==
  (enrichment.passes >= 1 /\ "data_source" \in enrichment.prev.cols) =>
    \A i \in 1..Len(enrichment.prev.rows) :
       enrichment.prev.rows[i].data_source # NaN =>
         enrichment.out.rows[i].data_source
           = enrichment.prev.rows[i].data_source

\* C27: every row the orchestrator stores under an adapter's source, with
\* collected_at = now, and every call and success it records for the
\* adapter belong to data the adapter fetched from its upstream during this
\* call; a batch the Yahoo adapter took from its cache of the day before
\* after a failed API call is not stored again nor counted as an update
C27_OnlyLiveDataStamped ==
  /\ \A s \in Sources : \A r \in Table(s) :
        JsonLoads(r.data_json).at = r.collected_at
  /\ (Called /\ last.recorded # {}) =>
        \A i \in 1..Len(last.result) : last.result[i].at = now

\* C28: an adapter that was invoked and raised or returned an empty batch
\* leaves the source's last_api_call and last_successful_update as they
\* were, its daily_calls as the budget check of the call left it, its table
\* untouched and can_call_api_today(source) with the same answer; when no
\* adapter of the call succeeded the three tables are all unchanged
C28_FailedAttemptConsumesNothing ==
  [][\A s \in Sources :
       (s \in last'.tried /\ s \notin last'.recorded) =>
         /\ metadata'[s].last_api_call = metadata[s].last_api_call
         /\ metadata'[s].last_successful_update
              = metadata[s].last_successful_update
         /\ metadata'[s].daily_calls
              = CanCallApisMeta(metadata, now)[s].daily_calls
         /\ CanCallResult(metadata', s, now) = CanCallResult(metadata, s, now)
         /\ (IF s = Yahoo THEN yahoo_finance_cache' = yahoo_finance_cache
             ELSE alpha_vantage_cache' = alpha_vantage_cache)
         /\ last'.recorded = {} => AllRows' = AllRows
    ]_vars

C28_Witness ==
  /\ Called
  /\ last.tried = Sources
  /\ last.recorded = {}
  /\ last.tier \in CacheTiers
  /\ last.yahoo_raised
  /\ \A s \in Sources : CanCallResult(metadata, s, now)
  /\ yahoo_finance_cache # {}

\* C29: on one tracker instance, once can_call_api_today(source) is false on
\* a calendar day it stays false for the rest of that day whatever is done
\* in between (record_api_call, record_successful_update of any source,
\* save_to_cache, get_from_cache, cleanup_old_cache, get_system_status);
\* it becomes true again only when the date changes
C29_DeniedForTheDay ==
  [][\A s \in Sources :
       (~CanCallResult(metadata, s, now) /\ DateOf(now') = DateOf(now)) =>
         ~CanCallResult(metadata', s, now')]_vars

C29_Witness ==
  /\ obs.op = "can_call" /\ ~obs.answer
  /\ metadata[obs.source].last_successful_update # None
  /\ DateOf(metadata[obs.source].last_successful_update) = Today
  /\ metadata["last_cache_cleanup"] # None
  /\ DateOf(metadata["last_cache_cleanup"]) = Today
  /\ \E s \in Sources : s # obs.source /\ metadata[s].daily_calls > 0
  /\ combined_cache # {}

\* C30: a tracker constructed on a metadata file that cannot be parsed
\* starts with no per-source state, and a can_call_api_today whose body
\* raises returns True; in both cases can_call_api_today(source) is True for
\* every source, also when a call for it was recorded earlier the same day
C30_FailsOpen ==
  /\ (obs.op = "restart" /\ ~obs.answer) =>
        /\ metadata = EmptyMeta
        /\ \A s \in Sources : CanCallResult(metadata, s, now)
  /\ (obs.op = "can_call" /\ ~metadata[obs.source].present) => obs.answer
  /\ obs.op = "can_call_raising" => obs.answer

C30_Witness ==
  /\ obs.op = "can_call" /\ obs.answer
  /\ ~metadata[obs.source].present
  /\ ~metadata_file.readable
  /\ called_on[obs.source] = Today

====
